---- MODULE Spec2Model ----
(***************************************************************************)
(* State store of torrent-bot (src/data/database.py): the three tables     *)
(* movies, tv_shows and tv_show_seasons kept by TBDatabase in SQLite, and  *)
(* its operations.  A stored or supplied value is a tagged record, so that *)
(* SQLite's column affinity (numeric text stored in an INTEGER column      *)
(* becomes an integer) is a real conversion.                               *)
(*                                                                         *)
(* movies, tv_shows, tv_show_seasons  the tables as the connection sees    *)
(*                                    them                                 *)
(* committed        the tables as stored in the file (what another         *)
(*                  connection reads)                                      *)
(* sqlite_sequence  the AUTOINCREMENT counters                             *)
(* schema           the tables and views that exist                        *)
(* closed           close() has run                                        *)
(* last, returned   the call that ran last, and what it returned           *)
(* pre              the tables as they were before that call               *)
(* assigned         the ids every table has handed out, in order           *)
(***************************************************************************)
EXTENDS Integers, Sequences, FiniteSets, TLC

VARIABLES movies, tv_shows, tv_show_seasons, sqlite_sequence, last, pre,
          committed, schema, closed, returned, assigned

vars == <<movies, tv_shows, tv_show_seasons, sqlite_sequence, last, pre,
          committed, schema, closed, returned, assigned>>

\* Rows ever inserted, over the three tables (bounds the AUTOINCREMENT counters).
MaxInserts == 3

\* Rows ever inserted into one table.
MaxRows == 2

(***************************************************************************)
(* Values                                                                  *)
(***************************************************************************)
IntV(n) == [t |-> "int", n |-> n, s |-> ""]
TextV(s) == [t |-> "text", n |-> 0, s |-> s]
NullV == [t |-> "null", n |-> 0, s |-> ""]

\* Text that SQLite reads as an integer literal, and the integer it denotes.
NumericText == [s \in {"1", "2", "3", "4"} |->
                  CASE s = "1" -> 1 [] s = "2" -> 2 [] s = "3" -> 3 [] s = "4" -> 4]

\* Decimal rendering of an integer.
IntText == [n \in 1..4 |->
              CASE n = 1 -> "1" [] n = 2 -> "2" [] n = 3 -> "3" [] n = 4 -> "4"]

\* A value stored in a column declared INTEGER.
IntegerAffinity(v) ==
  IF v.t = "text" /\ v.s \in DOMAIN NumericText THEN IntV(NumericText[v.s]) ELSE v

\* A value stored in a column declared TEXT.
TextAffinity(v) ==
  IF v.t = "int" THEN TextV(IntText[v.n]) ELSE v

\* TorrentState
SEARCHING == TextV("SEARCHING")
DOWNLOADING == TextV("DOWNLOADING")
SEEDING == TextV("SEEDING")
COMPLETED == TextV("COMPLETED")
DELETING == TextV("DELETING")
PAUSED == TextV("PAUSED")

get_states == {SEARCHING, DOWNLOADING, SEEDING, COMPLETED, DELETING, PAUSED}

(***************************************************************************)
(* Schema                                                                  *)
(***************************************************************************)
\* Declared affinity of each column that an INSERT or UPDATE can write.
ColumnAffinity ==
  [movies |-> [name |-> "TEXT", max_size_mb |-> "INTEGER",
               resolution_profile |-> "TEXT", state |-> "TEXT", hash |-> "TEXT"],
   tv_shows |-> [name |-> "TEXT", max_episode_size_mb |-> "INTEGER",
                 resolution_profile |-> "TEXT", state |-> "TEXT"],
   tv_show_seasons |-> [show_id |-> "INTEGER", season_number |-> "INTEGER",
                        season_number_episodes |-> "INTEGER", state |-> "TEXT",
                        hash |-> "TEXT"]]

\* Columns declared NOT NULL.
NotNullColumns ==
  [movies |-> {"name", "max_size_mb", "resolution_profile", "state"},
   tv_shows |-> {"name", "max_episode_size_mb", "resolution_profile", "state"},
   tv_show_seasons |-> {"season_number", "season_number_episodes", "state"}]

\* The schema with UNIQUE dropped from movies.name and tv_shows.name.
UniqueConstraintsWithoutName ==
  [movies |-> {},
   tv_shows |-> {},
   tv_show_seasons |-> {{"show_id", "season_number"}}]

\* UNIQUE constraints: each is a set of columns.
UniqueConstraints ==
  [movies |-> {{"name"}},
   tv_shows |-> {{"name"}},
   tv_show_seasons |-> {{"show_id", "season_number"}}]

\* The value a column stores when v is written to it.
Store(table, col, v) ==
  IF ColumnAffinity[table][col] = "INTEGER" THEN IntegerAffinity(v) ELSE TextAffinity(v)

\* WHERE id=? : the bound parameter is compared with the INTEGER column id.
IdMatches(rowid, id) == IntegerAffinity(id) = IntV(rowid)

\* A row breaks a NOT NULL constraint of its table.
NotNullFails(table, row) ==
  \E c \in NotNullColumns[table] : row[c] = NullV

\* A row collides with another row on a UNIQUE constraint (NULLs never collide).
UniqueFails(table, rows, row) ==
  \E u \in UniqueConstraints[table] : \E o \in rows :
     /\ o.id # row.id
     /\ \A c \in u : row[c] # NullV /\ o[c] = row[c]

\* INTEGER PRIMARY KEY without AUTOINCREMENT: one more than the largest id
\* now in the table.
NextIdWithoutAutoincrement(rows, seqno) ==
  LET used == {r.id : r \in rows} \cup {0}
  IN  1 + CHOOSE m \in used : \A x \in used : x <= m

\* INTEGER PRIMARY KEY AUTOINCREMENT: one more than the largest id ever used.
NextId(rows, seqno) ==
  LET used == {r.id : r \in rows} \cup {seqno}
  IN  1 + CHOOSE m \in used : \A x \in used : x <= m

\* INSERT of one row: [result, rows, seq].
Insert(table, rows, seqno, fields) ==
  LET row == [c \in DOMAIN fields \cup {"id"} |->
                IF c = "id" THEN NextId(rows, seqno) ELSE fields[c]]
  IN  IF NotNullFails(table, row) \/ UniqueFails(table, rows, row)
      THEN [result |-> "IntegrityError", rows |-> rows, seq |-> seqno]
      ELSE [result |-> "ok", rows |-> rows \cup {row}, seq |-> row.id]

(***************************************************************************)
(* The call that ran last, and the tables as they were before it.          *)
(***************************************************************************)
Call(op, id, kwargs, args, result) ==
  [op |-> op, id |-> id, kwargs |-> kwargs, args |-> args, result |-> result]

Tables ==
  [movies |-> movies, tv_shows |-> tv_shows, tv_show_seasons |-> tv_show_seasons]

Inserted ==
  sqlite_sequence.movies + sqlite_sequence.tv_shows + sqlite_sequence.tv_show_seasons

\* Return value of a method that returns nothing, or that raised.
None == NullV

\* The four objects create_schema creates, in the order it creates them.
SchemaObjects ==
  <<"movies", "tv_shows", "tv_show_seasons", "tv_shows_with_seasons_view">>

\* self.connection.cursor() that also works on a closed connection.
cursor_reopening == "ok"

\* self.connection.cursor(): raises on a closed connection.
cursor == IF closed THEN "ProgrammingError" ELSE "ok"

\* self.connection.commit() left out: the file keeps what it held.
commit_skipped(working, durable) == durable

\* self.connection.commit(): the file now holds what the connection sees.
commit(working, durable) == working

\* __init__ followed by create_schema on a fresh file.
Init ==
  /\ movies = {}
  /\ tv_shows = {}
  /\ tv_show_seasons = {}
  /\ sqlite_sequence = [movies |-> 0, tv_shows |-> 0, tv_show_seasons |-> 0]
  /\ last = Call("create_schema", NullV, <<>>, <<>>, "ok")
  /\ pre = [movies |-> {}, tv_shows |-> {}, tv_show_seasons |-> {}]
  /\ committed = [movies |-> {}, tv_shows |-> {}, tv_show_seasons |-> {}]
  /\ schema = {SchemaObjects[i] : i \in DOMAIN SchemaObjects}
  /\ closed = FALSE
  /\ returned = None
  /\ assigned = [movies |-> <<>>, tv_shows |-> <<>>, tv_show_seasons |-> <<>>]

(***************************************************************************)
(* Create operations                                                       *)
(***************************************************************************)
add_movie(name, max_size_mb, resolution_profile) ==
  LET r == IF cursor # "ok"
           THEN [result |-> cursor, rows |-> movies, seq |-> sqlite_sequence.movies]
           ELSE
           Insert("movies", movies, sqlite_sequence.movies,
                  [name |-> Store("movies", "name", name),
                   max_size_mb |-> Store("movies", "max_size_mb", max_size_mb),
                   resolution_profile |->
                     Store("movies", "resolution_profile", resolution_profile),
                   state |-> SEARCHING,
                   hash |-> NullV])
  IN  /\ r.result = "ok" => Inserted < MaxInserts /\ sqlite_sequence.movies < MaxRows
      /\ movies' = r.rows
      /\ sqlite_sequence' = [sqlite_sequence EXCEPT !.movies = r.seq]
      /\ last' = Call("add_movie", NullV, <<>>,
                      <<name, max_size_mb, resolution_profile>>, r.result)
      /\ pre' = Tables
      /\ assigned' = IF r.result = "ok"
                     THEN [assigned EXCEPT !.movies = Append(@, r.seq)]
                     ELSE assigned
      /\ committed' = IF r.result = "ok"
                      THEN commit([Tables EXCEPT !.movies = r.rows], committed)
                      ELSE committed
      /\ returned' = None
      /\ UNCHANGED <<tv_shows, tv_show_seasons, schema, closed>>

add_tv_show(name, max_episode_size_mb, resolution_profile) ==
  LET r == IF cursor # "ok"
           THEN [result |-> cursor, rows |-> tv_shows, seq |-> sqlite_sequence.tv_shows]
           ELSE
           Insert("tv_shows", tv_shows, sqlite_sequence.tv_shows,
                  [name |-> Store("tv_shows", "name", name),
                   max_episode_size_mb |->
                     Store("tv_shows", "max_episode_size_mb", max_episode_size_mb),
                   resolution_profile |->
                     Store("tv_shows", "resolution_profile", resolution_profile),
                   state |-> SEARCHING])
  IN  /\ r.result = "ok" => Inserted < MaxInserts /\ sqlite_sequence.tv_shows < MaxRows
      /\ tv_shows' = r.rows
      /\ sqlite_sequence' = [sqlite_sequence EXCEPT !.tv_shows = r.seq]
      /\ last' = Call("add_tv_show", NullV, <<>>,
                      <<name, max_episode_size_mb, resolution_profile>>, r.result)
      /\ pre' = Tables
      /\ assigned' = IF r.result = "ok"
                     THEN [assigned EXCEPT !.tv_shows = Append(@, r.seq)]
                     ELSE assigned
      /\ committed' = IF r.result = "ok"
                      THEN commit([Tables EXCEPT !.tv_shows = r.rows], committed)
                      ELSE committed
      /\ returned' = None
      /\ UNCHANGED <<movies, tv_show_seasons, schema, closed>>

add_tv_show_season(show_id, season_number, season_number_episodes) ==
  LET r == IF cursor # "ok"
           THEN [result |-> cursor, rows |-> tv_show_seasons, seq |-> sqlite_sequence.tv_show_seasons]
           ELSE
           Insert("tv_show_seasons", tv_show_seasons, sqlite_sequence.tv_show_seasons,
                  [show_id |-> Store("tv_show_seasons", "show_id", show_id),
                   season_number |->
                     Store("tv_show_seasons", "season_number", season_number),
                   season_number_episodes |->
                     Store("tv_show_seasons", "season_number_episodes",
                           season_number_episodes),
                   state |-> SEARCHING,
                   hash |-> NullV])
  IN  /\ r.result = "ok" => Inserted < MaxInserts /\ sqlite_sequence.tv_show_seasons < MaxRows
      /\ tv_show_seasons' = r.rows
      /\ sqlite_sequence' = [sqlite_sequence EXCEPT !.tv_show_seasons = r.seq]
      /\ last' = Call("add_tv_show_season", NullV, <<>>,
                      <<show_id, season_number, season_number_episodes>>, r.result)
      /\ pre' = Tables
      /\ assigned' = IF r.result = "ok"
                     THEN [assigned EXCEPT !.tv_show_seasons = Append(@, r.seq)]
                     ELSE assigned
      /\ committed' = IF r.result = "ok"
                      THEN commit([Tables EXCEPT !.tv_show_seasons = r.rows], committed)
                      ELSE committed
      /\ returned' = None
      /\ UNCHANGED <<movies, tv_shows, schema, closed>>

(***************************************************************************)
(* Update operations                                                       *)
(***************************************************************************)
movie_table_columns == {"name", "max_size_mb", "resolution_profile", "state", "hash"}

tv_shows_table_columns == {"name", "max_episode_size_mb", "resolution_profile", "state"}

\* The season allow-list with the foreign key added to it.
tv_show_season_table_columns_with_show_id ==
  {"show_id", "season_number", "season_number_episodes", "state", "hash"}

tv_show_season_table_columns ==
  {"season_number", "season_number_episodes", "state", "hash"}

\* def update_x(self, id, **kwargs): a keyword that names a positional
\* parameter cannot be bound, and the call raises before the body runs.
PositionalParameters == {"self", "id"}

\* The for loop over kwargs.items(): index of the first key outside the
\* allow-list (where the loop raises), or 0 when the loop runs to its end.
RECURSIVE FirstBadKey(_, _, _)
FirstBadKey(kwargs, columns, i) ==
  IF i > Len(kwargs) THEN 0
  ELSE IF kwargs[i].k \notin columns THEN i
  ELSE FirstBadKey(kwargs, columns, i + 1)

\* The value the SET clause gives column c, or the row's present value.
SetValue(table, row, kwargs, c) ==
  IF \E i \in 1..Len(kwargs) : kwargs[i].k = c
  THEN Store(table, c, kwargs[CHOOSE i \in 1..Len(kwargs) : kwargs[i].k = c].v)
  ELSE row[c]

\* The UPDATE without its WHERE clause: every row of the table is written.
UpdateRowsWithoutWhere(table, rows, id, kwargs) ==
  LET new == {[c \in DOMAIN r |-> SetValue(table, r, kwargs, c)] : r \in rows}
  IN  IF \E n \in new : NotNullFails(table, n) \/ UniqueFails(table, new, n)
      THEN [result |-> "IntegrityError", rows |-> rows]
      ELSE [result |-> "ok", rows |-> new]

\* An UPDATE that raises when its WHERE clause matches no row.
UpdateRowsOrRaise(table, rows, id, kwargs) ==
  LET hit == {r \in rows : IdMatches(r.id, id)}
      new == {[c \in DOMAIN r |-> SetValue(table, r, kwargs, c)] : r \in hit}
      out == (rows \ hit) \cup new
  IN  IF hit = {}
      THEN [result |-> "Exception", rows |-> rows]
      ELSE IF \E n \in new : NotNullFails(table, n) \/ UniqueFails(table, out, n)
      THEN [result |-> "IntegrityError", rows |-> rows]
      ELSE [result |-> "ok", rows |-> out]

\* UPDATE table SET k1=?, k2=?, ... WHERE id=? : [result, rows].
UpdateRows(table, rows, id, kwargs) ==
  LET hit == {r \in rows : IdMatches(r.id, id)}
      new == {[c \in DOMAIN r |-> SetValue(table, r, kwargs, c)] : r \in hit}
      out == (rows \ hit) \cup new
  IN  IF \E n \in new : NotNullFails(table, n) \/ UniqueFails(table, out, n)
      THEN [result |-> "IntegrityError", rows |-> rows]
      ELSE [result |-> "ok", rows |-> out]

\* The body with one UPDATE issued per key inside the loop: the keys before
\* the first bad one are written before the loop raises.
UpdateKeyByKey(table, rows, id, kwargs, columns) ==
  LET bad == FirstBadKey(kwargs, columns, 1)
  IN  IF \E i \in 1..Len(kwargs) : kwargs[i].k \in PositionalParameters
      THEN [result |-> "TypeError", rows |-> rows]
      ELSE IF cursor # "ok"
      THEN [result |-> cursor, rows |-> rows]
      ELSE IF kwargs = <<>>
      THEN [result |-> "Exception", rows |-> rows]
      ELSE IF bad # 0
      THEN [result |-> "Exception",
            rows |-> UpdateRows(table, rows, id, SubSeq(kwargs, 1, bad - 1)).rows]
      ELSE UpdateRows(table, rows, id, kwargs)

\* Body of update_movie / update_tv_show / update_show_season: [result, rows].
Update(table, rows, id, kwargs, columns) ==
  IF \E i \in 1..Len(kwargs) : kwargs[i].k \in PositionalParameters
  THEN [result |-> "TypeError", rows |-> rows]
  ELSE IF cursor # "ok"
  THEN [result |-> cursor, rows |-> rows]
  ELSE IF kwargs = <<>>
  THEN [result |-> "Exception", rows |-> rows]
  ELSE IF FirstBadKey(kwargs, columns, 1) # 0
  THEN [result |-> "Exception", rows |-> rows]
  ELSE UpdateRows(table, rows, id, kwargs)

update_movie(id, kwargs) ==
  LET r == Update("movies", movies, id, kwargs, movie_table_columns)
  IN  /\ movies' = r.rows
      /\ last' = Call("update_movie", id, kwargs, <<>>, r.result)
      /\ pre' = Tables
      /\ committed' = IF r.result = "ok"
                      THEN commit([Tables EXCEPT !.movies = r.rows], committed)
                      ELSE committed
      /\ returned' = None
      /\ UNCHANGED <<tv_shows, tv_show_seasons, sqlite_sequence, schema, closed, assigned>>

update_tv_show(id, kwargs) ==
  LET r == Update("tv_shows", tv_shows, id, kwargs, tv_shows_table_columns)
  IN  /\ tv_shows' = r.rows
      /\ last' = Call("update_tv_show", id, kwargs, <<>>, r.result)
      /\ pre' = Tables
      /\ committed' = IF r.result = "ok"
                      THEN commit([Tables EXCEPT !.tv_shows = r.rows], committed)
                      ELSE committed
      /\ returned' = None
      /\ UNCHANGED <<movies, tv_show_seasons, sqlite_sequence, schema, closed, assigned>>

update_show_season(id, kwargs) ==
  LET r == Update("tv_show_seasons", tv_show_seasons, id, kwargs,
                  tv_show_season_table_columns)
  IN  /\ tv_show_seasons' = r.rows
      /\ last' = Call("update_show_season", id, kwargs, <<>>, r.result)
      /\ pre' = Tables
      /\ committed' = IF r.result = "ok"
                      THEN commit([Tables EXCEPT !.tv_show_seasons = r.rows], committed)
                      ELSE committed
      /\ returned' = None
      /\ UNCHANGED <<movies, tv_shows, sqlite_sequence, schema, closed, assigned>>

(***************************************************************************)
(* Delete operations                                                       *)
(***************************************************************************)
\* The DELETE without its WHERE clause.
DeleteRowsWithoutWhere(rows, id) == {}

\* DELETE FROM table WHERE id=?
DeleteRows(rows, id) == {r \in rows : ~IdMatches(r.id, id)}

\* Body of delete_movie / delete_tv_show / delete_season: [result, rows].
Delete(rows, id) ==
  IF cursor # "ok"
  THEN [result |-> cursor, rows |-> rows]
  ELSE [result |-> "ok", rows |-> DeleteRows(rows, id)]

delete_movie(id) ==
  LET r == Delete(movies, id)
  IN  /\ movies' = r.rows
      /\ last' = Call("delete_movie", id, <<>>, <<>>, r.result)
      /\ pre' = Tables
      /\ committed' = IF r.result = "ok"
                      THEN commit([Tables EXCEPT !.movies = r.rows], committed)
                      ELSE committed
      /\ returned' = None
      /\ UNCHANGED <<tv_shows, tv_show_seasons, sqlite_sequence, schema, closed,
                     assigned>>

\* delete_tv_show as it would be with ON DELETE CASCADE in force: the seasons
\* of the show go with it.
delete_tv_show_cascading(id) ==
  LET r == Delete(tv_shows, id)
      gone == {sh.id : sh \in tv_shows \ r.rows}
      kept == {se \in tv_show_seasons :
                 ~\E g \in gone : se.show_id = IntV(g)}
  IN  /\ tv_shows' = r.rows
      /\ tv_show_seasons' = kept
      /\ last' = Call("delete_tv_show", id, <<>>, <<>>, r.result)
      /\ pre' = Tables
      /\ committed' = IF r.result = "ok"
                      THEN commit([Tables EXCEPT !.tv_shows = r.rows,
                                                 !.tv_show_seasons = kept],
                                  committed)
                      ELSE committed
      /\ returned' = None
      /\ UNCHANGED <<movies, sqlite_sequence, schema, closed, assigned>>

delete_tv_show(id) ==
  LET r == Delete(tv_shows, id)
  IN  /\ tv_shows' = r.rows
      /\ last' = Call("delete_tv_show", id, <<>>, <<>>, r.result)
      /\ pre' = Tables
      /\ committed' = IF r.result = "ok"
                      THEN commit([Tables EXCEPT !.tv_shows = r.rows], committed)
                      ELSE committed
      /\ returned' = None
      /\ UNCHANGED <<movies, tv_show_seasons, sqlite_sequence, schema, closed,
                     assigned>>

delete_season(id) ==
  LET r == Delete(tv_show_seasons, id)
  IN  /\ tv_show_seasons' = r.rows
      /\ last' = Call("delete_season", id, <<>>, <<>>, r.result)
      /\ pre' = Tables
      /\ committed' = IF r.result = "ok"
                      THEN commit([Tables EXCEPT !.tv_show_seasons = r.rows],
                                  committed)
                      ELSE committed
      /\ returned' = None
      /\ UNCHANGED <<movies, tv_shows, sqlite_sequence, schema, closed, assigned>>

(***************************************************************************)
(* Read operations                                                         *)
(***************************************************************************)
\* The SELECT of get_movie without its WHERE clause: fetchone() gives the
\* row with the lowest id.
get_first_movie(id) ==
  {r \in movies : \A o \in movies : r.id <= o.id}

\* cur.fetchone() after SELECT * FROM movies WHERE id=? : the set holding the
\* matching row, empty for None.
get_movie(id) == {r \in movies : IdMatches(r.id, id)}

get_tv_show(id) == {r \in tv_shows : IdMatches(r.id, id)}

\* The view with LEFT JOIN in place of INNER JOIN: a show without seasons
\* gives one row whose season columns are NULL (0 for the season id).
tv_shows_left_join_seasons ==
  {[show_id |-> sh.id, show_name |-> sh.name, show_state |-> sh.state,
    season_id |-> se.id, season_number |-> se.season_number,
    season_number_episodes |-> se.season_number_episodes,
    season_state |-> se.state, season_hash |-> se.hash] :
     <<sh, se>> \in {p \in tv_shows \X tv_show_seasons : IntV(p[1].id) = p[2].show_id}}
  \cup
  {[show_id |-> sh.id, show_name |-> sh.name, show_state |-> sh.state,
    season_id |-> 0, season_number |-> NullV,
    season_number_episodes |-> NullV,
    season_state |-> NullV, season_hash |-> NullV] :
     sh \in {x \in tv_shows :
               ~\E se \in tv_show_seasons : se.show_id = IntV(x.id)}}

\* tv_shows_with_seasons_view: tv_shows INNER JOIN tv_show_seasons
\* ON tv_shows.id = tv_show_seasons.show_id.
tv_shows_with_seasons_view ==
  {[show_id |-> sh.id, show_name |-> sh.name, show_state |-> sh.state,
    season_id |-> se.id, season_number |-> se.season_number,
    season_number_episodes |-> se.season_number_episodes,
    season_state |-> se.state, season_hash |-> se.hash] :
     <<sh, se>> \in {p \in tv_shows \X tv_show_seasons : IntV(p[1].id) = p[2].show_id}}

\* cur = self.connection.cursor(); cur.execute(SELECT ...); return the rows:
\* [result, value].
Read(value) ==
  IF cursor # "ok"
  THEN [result |-> cursor, value |-> None]
  ELSE [result |-> "ok", value |-> value]

get_all_movies == Read(movies)

get_all_tv_shows == Read(tv_shows)

get_all_tv_shows_with_seasons == Read(tv_shows_with_seasons_view)

\* SELECT * from tv_shows_with_seasons_view WHERE show_id=?
get_tv_show_with_seasons(id) ==
  Read({v \in tv_shows_with_seasons_view : IdMatches(v.show_id, id)})

\* get_season_states with the WHERE clause left out.
get_season_states_of_all_shows(show_id) ==
  Read({v.season_state : v \in tv_shows_with_seasons_view})

\* SELECT season_state FROM tv_shows_with_seasons_view WHERE show_id=? ,
\* collected into a Python set.
get_season_states(show_id) ==
  Read({v.season_state :
          v \in {w \in tv_shows_with_seasons_view : IdMatches(w.show_id, show_id)}})

\* The state check left out: the SELECT runs with whatever state is given.
get_rows_with_state_unchecked(rows, state) ==
  Read({r \in rows : r.state = state})

\* Body of get_movies_with_state / get_tv_shows_with_state: the state is
\* checked before the cursor is taken.
get_rows_with_state(rows, state) ==
  IF state \notin get_states
  THEN [result |-> "Exception", value |-> None]
  ELSE Read({r \in rows : r.state = state})

get_movies_with_state(state) == get_rows_with_state(movies, state)

get_tv_shows_with_state(state) == get_rows_with_state(tv_shows, state)

\* A read operation: the call and what it returned are recorded, nothing
\* else changes.
Query(op, args, r) ==
  /\ last' = Call(op, None, <<>>, args, r.result)
  /\ returned' = r.value
  /\ pre' = Tables
  /\ UNCHANGED <<movies, tv_shows, tv_show_seasons, sqlite_sequence, committed,
                 schema, closed, assigned>>

(***************************************************************************)
(* Schema creation and close                                               *)
(***************************************************************************)
\* CREATE TABLE / CREATE VIEW without IF NOT EXISTS: an error when the object
\* exists.
Create(objects, name) ==
  IF name \in objects
  THEN [result |-> "OperationalError", objects |-> objects]
  ELSE [result |-> "ok", objects |-> objects \cup {name}]

\* CREATE TABLE IF NOT EXISTS / CREATE VIEW IF NOT EXISTS: [result, objects].
CreateIfNotExists(objects, name) ==
  [result |-> "ok", objects |-> objects \cup {name}]

\* The four CREATE statements of create_schema from the i-th on, stopping at
\* the first that raises.
RECURSIVE CreateAll(_, _)
CreateAll(objects, i) ==
  IF i > Len(SchemaObjects)
  THEN [result |-> "ok", objects |-> objects]
  ELSE LET r == CreateIfNotExists(objects, SchemaObjects[i])
       IN  IF r.result # "ok" THEN r ELSE CreateAll(r.objects, i + 1)

create_schema ==
  LET r == IF cursor # "ok"
           THEN [result |-> cursor, objects |-> schema]
           ELSE CreateAll(schema, 1)
  IN  /\ schema' = r.objects
      /\ last' = Call("create_schema", None, <<>>, <<>>, r.result)
      /\ pre' = Tables
      /\ committed' = IF r.result = "ok" THEN commit(Tables, committed)
                      ELSE committed
      /\ returned' = None
      /\ UNCHANGED <<movies, tv_shows, tv_show_seasons, sqlite_sequence, closed,
                     assigned>>

\* self.connection.close(); closing a closed connection is allowed.
close ==
  /\ closed' = TRUE
  /\ last' = Call("close", None, <<>>, <<>>, "ok")
  /\ pre' = Tables
  /\ returned' = None
  /\ UNCHANGED <<movies, tv_shows, tv_show_seasons, sqlite_sequence, committed,
                 schema, assigned>>

(***************************************************************************)
(* Inputs                                                                  *)
(***************************************************************************)
KV(k, v) == [k |-> k, v |-> v]

\* Arguments follow the signatures: names and profiles are str, sizes int, and
\* ids and season numbers are given as int or as str; show_id may be None.
Names == {TextV("a"), TextV("b")}

Sizes == {IntV(1)}

Profiles == {TextV("r")}

ShowIds == {IntV(1), TextV("2"), NullV}

SeasonNumbers == {IntV(1), TextV("2")}

Ids == {IntV(1), TextV("2")}

\* Calls of update_movie tried: <<id, kwargs>>.  The mappings of the second
\* group raise before the id is used, so one id is tried with them.
MovieUpdates ==
  (Ids \X { <<KV("hash", TextV("h")), KV("state", DOWNLOADING)>>,
            <<KV("name", TextV("b"))>> })
  \cup
  ({IntV(1)} \X { <<>>,
                  <<KV("state", SEEDING), KV("bogus_field", IntV(1))>>,
                  <<KV("id", IntV(2))>> })

\* Calls of update_tv_show tried: <<id, kwargs>>.
ShowUpdates ==
  (Ids \X { <<KV("state", DOWNLOADING)>>,
            <<KV("name", TextV("b")), KV("state", TextV("BOGUS"))>> })
  \cup
  ({IntV(1)} \X { <<>>,
                  <<KV("name", NullV)>>,
                  <<KV("state", SEEDING), KV("hash", TextV("h"))>> })

\* Calls of update_show_season tried: <<id, kwargs>>.
SeasonUpdates ==
  (Ids \X { <<KV("state", DOWNLOADING)>>,
            <<KV("season_number", TextV("2"))>> })
  \cup
  ({IntV(1)} \X { <<>>,
                  <<KV("state", SEEDING), KV("show_id", IntV(2))>> })

Next ==
  \/ \E n \in Names, m \in Sizes, p \in Profiles : add_movie(n, m, p)
  \/ \E n \in Names, m \in Sizes, p \in Profiles : add_tv_show(n, m, p)
  \/ \E s \in ShowIds, n \in SeasonNumbers, e \in Sizes : add_tv_show_season(s, n, e)
  \/ \E c \in MovieUpdates : update_movie(c[1], c[2])
  \/ \E c \in ShowUpdates : update_tv_show(c[1], c[2])
  \/ \E c \in SeasonUpdates : update_show_season(c[1], c[2])
  \/ \E id \in Ids : delete_movie(id)
  \/ \E id \in Ids : delete_tv_show(id)
  \/ \E id \in Ids : delete_season(id)
  \/ create_schema

Spec == Init /\ [][Next]_vars

\* The whole interface, close and the read operations included, on few
\* values: one show name, one show id, one season number.
States == {SEARCHING, TextV("BOGUS")}

LifecycleUpdates ==
  {<<KV("state", DOWNLOADING)>>, <<>>, <<KV("id", IntV(2))>>}

NextLifecycle ==
  \/ \E n \in Names : add_movie(n, IntV(1), TextV("r"))
  \/ add_tv_show(TextV("a"), IntV(1), TextV("r"))
  \/ add_tv_show_season(IntV(1), IntV(1), IntV(1))
  \/ \E k \in LifecycleUpdates : update_movie(IntV(1), k)
  \/ \E k \in LifecycleUpdates : update_tv_show(IntV(1), k)
  \/ \E k \in LifecycleUpdates : update_show_season(IntV(1), k)
  \/ delete_movie(IntV(1))
  \/ delete_tv_show(IntV(1))
  \/ delete_season(IntV(1))
  \/ create_schema
  \/ close
  \/ \E st \in States :
        Query("get_movies_with_state", <<st>>, get_movies_with_state(st))
  \/ \E st \in States :
        Query("get_tv_shows_with_state", <<st>>, get_tv_shows_with_state(st))
  \/ Query("get_all_movies", <<>>, get_all_movies)
  \/ Query("get_all_tv_shows", <<>>, get_all_tv_shows)
  \/ Query("get_all_tv_shows_with_seasons", <<>>, get_all_tv_shows_with_seasons)
  \/ \E id \in Ids :
        Query("get_tv_show_with_seasons", <<id>>, get_tv_show_with_seasons(id))
  \/ \E id \in Ids : Query("get_movie", <<id>>, Read(get_movie(id)))
  \/ \E id \in Ids : Query("get_tv_show", <<id>>, Read(get_tv_show(id)))
  \/ \E id \in Ids : Query("get_season_states", <<id>>, get_season_states(id))

SpecLifecycle == Init /\ [][NextLifecycle]_vars

(***************************************************************************)
(* Vocabulary of the properties                                            *)
(***************************************************************************)
UpdateOps == {"update_movie", "update_tv_show", "update_show_season"}

AddOps == {"add_movie", "add_tv_show", "add_tv_show_season"}

DeleteOps == {"delete_movie", "delete_tv_show", "delete_season"}

\* The table an operation writes.
TableOf(op) ==
  CASE op \in {"add_movie", "update_movie", "delete_movie"} -> "movies"
    [] op \in {"add_tv_show", "update_tv_show", "delete_tv_show"} -> "tv_shows"
    [] OTHER -> "tv_show_seasons"

\* The allow-list of an update operation.
AllowList(op) ==
  CASE op = "update_movie" -> movie_table_columns
    [] op = "update_tv_show" -> tv_shows_table_columns
    [] OTHER -> tv_show_season_table_columns

Keys(kwargs) == {kwargs[i].k : i \in 1..Len(kwargs)}

Ids_(rows) == {r.id : r \in rows}

OtherTablesUnchanged(op) ==
  \A t \in DOMAIN Tables : t # TableOf(op) => Tables[t] = pre[t]

Errors == {"Exception", "TypeError", "IntegrityError"}

\* C1: the state of every stored movie, show and season is one of SEARCHING,
\* DOWNLOADING, SEEDING, COMPLETED, DELETING, PAUSED.
C1_StatesEnumerated ==
  /\ \A r \in movies : r.state \in get_states
  /\ \A r \in tv_shows : r.state \in get_states
  /\ \A r \in tv_show_seasons : r.state \in get_states

\* C2: the show_id of every stored season is the id of a row of tv_shows.
C2_SeasonBelongsToShow ==
  \A se \in tv_show_seasons : \E sh \in tv_shows : se.show_id = IntV(sh.id)

\* C3: an update of a stored row whose state value is outside the enumerated
\* set fails and leaves every table as it was.
C3_InvalidStateRejected ==
  (/\ last.op \in UpdateOps
   /\ \E r \in pre[TableOf(last.op)] : IdMatches(r.id, last.id)
   /\ \E i \in 1..Len(last.kwargs) :
        last.kwargs[i].k = "state" /\ last.kwargs[i].v \notin get_states)
  => (last.result \in Errors /\ Tables = pre)

\* C4: an update with an empty mapping, or with at least one key outside the
\* allow-list of its entity, fails with an error and leaves every table as it
\* was, whatever valid keys the mapping also holds.
C4_InvalidUpdateWritesNothing ==
  (/\ last.op \in UpdateOps
   /\ \/ last.kwargs = <<>>
      \/ \E k \in Keys(last.kwargs) : k \notin AllowList(last.op))
  => (last.result \in {"Exception", "TypeError"} /\ Tables = pre)

\* An update of an existing movie was rejected for its second key, after a
\* first key that is allowed.
C4_Witness ==
  /\ last.op = "update_movie"
  /\ last.kwargs = <<KV("state", SEEDING), KV("bogus_field", IntV(1))>>
  /\ last.result = "Exception"
  /\ \E r \in movies : IdMatches(r.id, last.id)

\* C5: a successful update leaves the other tables and the other rows of its
\* table as they were, and in the row whose id matches it leaves every column
\* the mapping does not name as it was and gives every named column the
\* value written.
C5_UpdateChangesNamedColumnsOnly ==
  (last.op \in UpdateOps /\ last.result = "ok")
  => LET t == TableOf(last.op)
     IN  /\ OtherTablesUnchanged(last.op)
         /\ Ids_(Tables[t]) = Ids_(pre[t])
         /\ \A r \in Tables[t] : \A o \in pre[t] :
              r.id = o.id =>
                IF IdMatches(r.id, last.id)
                THEN /\ \A c \in DOMAIN r \ Keys(last.kwargs) : r[c] = o[c]
                     /\ \A i \in 1..Len(last.kwargs) :
                          r[last.kwargs[i].k] = Store(t, last.kwargs[i].k, last.kwargs[i].v)
                ELSE r = o

\* The state of a show that has a season and a sibling show was set.
C5_Witness ==
  /\ last.op = "update_tv_show"
  /\ last.result = "ok"
  /\ last.kwargs = <<KV("state", DOWNLOADING)>>
  /\ Cardinality(tv_shows) = 2
  /\ \E sh \in tv_shows :
       /\ IdMatches(sh.id, last.id)
       /\ sh.state = DOWNLOADING
       /\ \E o \in pre.tv_shows : o.id = sh.id /\ o.state = SEARCHING
       /\ \E se \in tv_show_seasons : se.show_id = IntV(sh.id) /\ se.state = SEARCHING

\* C6: no two stored seasons have the same (show_id, season_number) pair.
C6_SeasonPairsUnique ==
  \A a \in tv_show_seasons : \A b \in tv_show_seasons :
     (a.show_id = b.show_id /\ a.season_number = b.season_number) => a.id = b.id

\* C7: no two movies share a name and no two shows share a name, and an
\* add_movie / add_tv_show whose name is already in its table fails with a
\* constraint violation and leaves every table as it was.
C7_NamesUnique ==
  /\ \A a \in movies : \A b \in movies : a.name = b.name => a.id = b.id
  /\ \A a \in tv_shows : \A b \in tv_shows : a.name = b.name => a.id = b.id
  /\ (/\ last.op \in {"add_movie", "add_tv_show"}
      /\ \E o \in pre[TableOf(last.op)] : o.name = TextAffinity(last.args[1]))
     => (last.result = "IntegrityError" /\ Tables = pre)

\* A second add_movie under a name that a stored movie has was refused.
C7_Witness ==
  /\ last.op = "add_movie"
  /\ last.result = "IntegrityError"
  /\ \E r \in movies : r.name = last.args[1]

\* C8: after a successful add (for a season, one whose show_id names a stored
\* show) the new row is read back by its id (a season through the join view)
\* with state SEARCHING, every supplied field equal to the supplied value and,
\* for a movie or a season, no hash; no other row is changed.
C8_InsertReadsBack ==
  (/\ last.op \in AddOps
   /\ last.result = "ok"
   /\ last.op = "add_tv_show_season"
        => \E sh \in pre.tv_shows : IdMatches(sh.id, last.args[1]))
  => LET t == TableOf(last.op)
         new == Tables[t] \ pre[t]
     IN  /\ OtherTablesUnchanged(last.op)
         /\ pre[t] \subseteq Tables[t]
         /\ Cardinality(new) = 1
         /\ \A r \in new :
              CASE last.op = "add_movie" ->
                     /\ get_movie(IntV(r.id)) = {r}
                     /\ r.name = last.args[1]
                     /\ r.max_size_mb = last.args[2]
                     /\ r.resolution_profile = last.args[3]
                     /\ r.state = SEARCHING
                     /\ r.hash = NullV
                [] last.op = "add_tv_show" ->
                     /\ get_tv_show(IntV(r.id)) = {r}
                     /\ r.name = last.args[1]
                     /\ r.max_episode_size_mb = last.args[2]
                     /\ r.resolution_profile = last.args[3]
                     /\ r.state = SEARCHING
                [] OTHER ->
                     \E v \in tv_shows_with_seasons_view :
                        /\ v.season_id = r.id
                        /\ IntV(v.show_id) = last.args[1]
                        /\ v.season_number = last.args[2]
                        /\ v.season_number_episodes = last.args[3]
                        /\ v.season_state = SEARCHING
                        /\ v.season_hash = NullV

\* C9: an update operation leaves the set of ids of every table and the
\* show_id of every season as they were, and rejects a mapping that names id
\* or show_id.
C9_UpdateKeepsIdentity ==
  last.op \in UpdateOps
  => /\ \A t \in DOMAIN Tables : Ids_(Tables[t]) = Ids_(pre[t])
     /\ \A se \in tv_show_seasons : \A o \in pre.tv_show_seasons :
          se.id = o.id => se.show_id = o.show_id
     /\ (Keys(last.kwargs) \cap {"id", "show_id"} # {})
          => (last.result \in {"Exception", "TypeError"} /\ Tables = pre)

\* An update of an existing season that names show_id was rejected.
C9_Witness ==
  /\ last.op = "update_show_season"
  /\ "show_id" \in Keys(last.kwargs)
  /\ last.result = "Exception"
  /\ \E se \in tv_show_seasons : IdMatches(se.id, last.id) /\ se.show_id # IntV(2)

\* C10: a delete raises no error, removes the row whose id matches and no
\* other row, leaves every table as it was when no row matches, and leaves
\* a store on which the same delete changes nothing.
C10_DeleteIdempotent ==
  last.op \in DeleteOps
  => LET t == TableOf(last.op)
         gone == pre[t] \ Tables[t]
     IN  /\ last.result = "ok"
         /\ OtherTablesUnchanged(last.op)
         /\ Tables[t] \subseteq pre[t]
         /\ gone = {r \in pre[t] : IdMatches(r.id, last.id)}
         /\ Cardinality(gone) <= 1
         /\ DeleteRows(Tables[t], last.id) = Tables[t]

\* A delete of a movie id that was assigned earlier and is no longer stored
\* ran while another movie was stored.
C10_Witness ==
  /\ last.op = "delete_movie"
  /\ last.result = "ok"
  /\ movies # {}
  /\ movies = pre.movies
  /\ IntegerAffinity(last.id).n <= sqlite_sequence.movies

\* C11: delete_tv_show does not cascade: it removes the show row whose id
\* matches and nothing else; tv_show_seasons (and movies) are exactly what
\* they were before the call.
C11_DeleteShowDoesNotCascade ==
  last.op = "delete_tv_show"
  => /\ tv_show_seasons = pre.tv_show_seasons
     /\ movies = pre.movies
     /\ tv_shows = {r \in pre.tv_shows : ~IdMatches(r.id, last.id)}

\* A show that had a season was deleted, and the season is still stored.
C11_Witness ==
  /\ last.op = "delete_tv_show"
  /\ \E sh \in pre.tv_shows \ tv_shows :
        \E se \in tv_show_seasons : se.show_id = IntV(sh.id)

\* The (show, season) pairs the join is made of: the season's show_id is the
\* show's id.
ShowSeasonPairs ==
  {p \in tv_shows \X tv_show_seasons : p[2].show_id = IntV(p[1].id)}

\* C12: get_all_tv_shows_with_seasons returns exactly one row per (show,
\* season) pair with season.show_id = show.id, carrying the show's id, name
\* and state and the season's id, number, episode count, state and hash; a
\* show without seasons and a season without show give no row; and
\* get_tv_show_with_seasons(id) returns exactly the rows of that join whose
\* show_id equals id.
C12_JoinIsInner ==
  LET all == get_all_tv_shows_with_seasons
  IN  /\ all.result = "ok"
      /\ \A v \in all.value :
            \E p \in ShowSeasonPairs :
               /\ v.show_id = p[1].id
               /\ v.show_name = p[1].name
               /\ v.show_state = p[1].state
               /\ v.season_id = p[2].id
               /\ v.season_number = p[2].season_number
               /\ v.season_number_episodes = p[2].season_number_episodes
               /\ v.season_state = p[2].state
               /\ v.season_hash = p[2].hash
      /\ \A p \in ShowSeasonPairs :
            \E v \in all.value : v.show_id = p[1].id /\ v.season_id = p[2].id
      /\ Cardinality(all.value) = Cardinality(ShowSeasonPairs)
      /\ \A id \in Ids :
            /\ get_tv_show_with_seasons(id).result = "ok"
            /\ get_tv_show_with_seasons(id).value
                 = {v \in all.value : IntV(v.show_id) = IntegerAffinity(id)}

\* The join has a row, and next to it a season that belongs to no stored
\* show and therefore to no row of the join.
C12_Witness ==
  /\ get_all_tv_shows_with_seasons.value # {}
  /\ \E se \in tv_show_seasons :
        /\ \A sh \in tv_shows : se.show_id # IntV(sh.id)
        /\ \A v \in get_all_tv_shows_with_seasons.value : v.season_id # se.id
  /\ \E id \in Ids : get_tv_show_with_seasons(id).value # {}

\* C13: for every stored show, whichever way its id is written,
\* get_season_states returns exactly the set of the distinct states of the
\* seasons of that show, the empty set when it has none.
C13_SeasonStates ==
  \A sh \in tv_shows : \A id \in Ids \cup {IntV(sh.id)} :
     IdMatches(sh.id, id)
     => /\ get_season_states(id).result = "ok"
        /\ get_season_states(id).value
             = {se.state : se \in {x \in tv_show_seasons : x.show_id = IntV(sh.id)}}

\* A show has two seasons in the same state and get_season_states gives the
\* one-element set, while another id gives the empty set.
C13_Witness ==
  \E sh \in tv_shows :
     /\ Cardinality({se \in tv_show_seasons : se.show_id = IntV(sh.id)}) = 2
     /\ Cardinality(get_season_states(IntV(sh.id)).value) = 1
     /\ get_season_states(IntV(sh.id + 1)).value = {}

\* C17: get_movie and get_tv_show raise nothing; they return the one stored
\* record whose id matches when there is one and no record when there is
\* none (also for an id that was assigned and deleted); never the record of
\* another row.
C17_LookupById ==
  \A id \in Ids :
     /\ Read(get_movie(id)).result = "ok"
     /\ Read(get_tv_show(id)).result = "ok"
     /\ get_movie(id) \subseteq movies
     /\ get_tv_show(id) \subseteq tv_shows
     /\ \A r \in get_movie(id) \cup get_tv_show(id) :
           IntV(r.id) = IntegerAffinity(id)
     /\ Cardinality(get_movie(id)) <= 1
     /\ Cardinality(get_tv_show(id)) <= 1
     /\ get_movie(id) = {} <=> \A r \in movies : IntV(r.id) # IntegerAffinity(id)
     /\ get_tv_show(id) = {} <=> \A r \in tv_shows : IntV(r.id) # IntegerAffinity(id)

\* The movie with id 1 was deleted and the movie with id 2 is stored: the
\* lookup of 1 gives no record, the lookup of '2' gives movie 2.
C17_Witness ==
  /\ last.op = "delete_movie"
  /\ \E r \in pre.movies \ movies : get_movie(IntV(r.id)) = {}
  /\ \E r \in movies : get_movie(TextV("2")) = {r}

\* C20: an update with a non-empty mapping of allowed keys and an id that
\* matches no row raises nothing and leaves every table as it was: no row is
\* created.
C20_UpdateNeverInserts ==
  (/\ last.op \in UpdateOps
   /\ last.kwargs # <<>>
   /\ Keys(last.kwargs) \subseteq AllowList(last.op)
   /\ ~\E r \in pre[TableOf(last.op)] : IdMatches(r.id, last.id))
  => /\ last.result = "ok"
     /\ Tables = pre

\* update_movie ran with allowed keys and the id of no stored movie while
\* another movie was stored.
C20_Witness ==
  /\ last.op = "update_movie"
  /\ last.kwargs # <<>>
  /\ Keys(last.kwargs) \subseteq AllowList(last.op)
  /\ pre.movies # {}
  /\ ~\E r \in pre.movies : IdMatches(r.id, last.id)
  /\ last.result = "ok"

\* The ids a table has handed out so far, and those it had handed out before
\* the last call.
Assigned(t) == {assigned[t][i] : i \in DOMAIN assigned[t]}

AssignedBefore(t) ==
  IF last.op \in AddOps /\ last.result = "ok" /\ TableOf(last.op) = t
  THEN {assigned[t][i] : i \in 1..(Len(assigned[t]) - 1)}
  ELSE Assigned(t)

\* C19: ids are never reused.  In every table the ids handed out are
\* strictly increasing in the order of the adds, every stored row holds an id
\* that was handed out, and the row a successful add creates has an id
\* greater than every id handed out before, deleted or not.  Consequently a
\* season whose show was deleted before the last call (its show_id was
\* handed out to a show that was no longer stored) is in no row of the join
\* after the call.
C19_IdsNeverReused ==
  /\ \A t \in DOMAIN Tables :
        /\ \A i, j \in DOMAIN assigned[t] :
              i < j => assigned[t][i] < assigned[t][j]
        /\ Ids_(Tables[t]) \subseteq Assigned(t)
        /\ Ids_(pre[t]) \subseteq AssignedBefore(t)
  /\ (last.op \in AddOps /\ last.result = "ok")
     => LET t == TableOf(last.op)
        IN  \E r \in Tables[t] :
               /\ Tables[t] = pre[t] \cup {r}
               /\ r.id = assigned[t][Len(assigned[t])]
               /\ \A a \in AssignedBefore(t) : a < r.id
  /\ \A se \in pre.tv_show_seasons :
        (/\ \E a \in AssignedBefore("tv_shows") : se.show_id = IntV(a)
         /\ \A sh \in pre.tv_shows : se.show_id # IntV(sh.id))
        => \A v \in tv_shows_with_seasons_view : v.season_id # se.id

\* A show was added after the show with the highest id had been deleted,
\* while the season of the deleted show was still stored.
C19_Witness ==
  /\ last.op = "add_tv_show"
  /\ last.result = "ok"
  /\ \E a \in AssignedBefore("tv_shows") :
        /\ \A b \in AssignedBefore("tv_shows") : b <= a
        /\ a \notin Ids_(pre.tv_shows)
        /\ \E se \in tv_show_seasons : se.show_id = IntV(a)

StateQueries == {"get_movies_with_state", "get_tv_shows_with_state"}

\* C14: get_movies_with_state and get_tv_shows_with_state leave the store as
\* it was; given a state outside the six they raise the invalid-state
\* Exception before a cursor is taken (so also on a closed connection, where
\* any query raises ProgrammingError) and return nothing; given one of the
\* six, on an open store, they return exactly the rows of the table whose
\* state is the one given.
C14_StateQueries ==
  last.op \in StateQueries
  => LET rows == IF last.op = "get_movies_with_state" THEN movies ELSE tv_shows
     IN  /\ Tables = pre
         /\ last.args[1] \notin get_states
            => last.result = "Exception" /\ returned = None
         /\ (last.args[1] \in get_states /\ ~closed)
            => /\ last.result = "ok"
               /\ returned = {r \in rows : r.state = last.args[1]}

\* get_movies_with_state was called with a state outside the six on an open
\* store holding two movies in different states.
C14_Witness ==
  /\ last.op = "get_movies_with_state"
  /\ last.args[1] \notin get_states
  /\ ~closed
  /\ \E a, b \in movies : a.state # b.state
  /\ last.result = "Exception"

Failures == Errors \cup {"ProgrammingError", "OperationalError"}

\* C15: once the store is closed it stays closed, and every call other than
\* close raises, returns nothing and leaves the tables, the file, the
\* schema and the id counters as they were.
C15_NothingAfterClose ==
  [][closed
     => /\ closed'
        /\ UNCHANGED <<movies, tv_shows, tv_show_seasons, sqlite_sequence,
                       committed, schema, assigned>>
        /\ last'.op # "close"
           => last'.result \in Failures /\ returned' = None]_vars

\* An add was called on a closed store that holds a movie, and it raised.
C15_Witness ==
  /\ closed
  /\ last.op = "add_tv_show"
  /\ last.result = "ProgrammingError"
  /\ movies # {}

\* C16: create_schema on an open, initialized store raises nothing, leaves
\* the three tables and the view in place and no other object, and leaves
\* every row of every table as it was.
C16_CreateSchemaIdempotent ==
  (last.op = "create_schema" /\ ~closed)
  => /\ last.result = "ok"
     /\ schema = {SchemaObjects[i] : i \in DOMAIN SchemaObjects}
     /\ Tables = pre
     /\ committed = pre

\* create_schema ran on a store that holds a movie and a season.
C16_Witness ==
  /\ last.op = "create_schema"
  /\ last.result = "ok"
  /\ pre.movies # {}
  /\ pre.tv_show_seasons # {}

\* C18: between operations the file holds exactly what the connection sees:
\* every change of an operation that returned is committed, an operation that
\* raised changed nothing, so a second connection to the same file reads the
\* effects of all operations that returned.
C18_Committed ==
  /\ committed = Tables
  /\ last.result # "ok" => Tables = pre

\* An update changed a row and returned, and the file holds the new row.
C18_Witness ==
  /\ last.op \in UpdateOps
  /\ last.result = "ok"
  /\ Tables # pre
  /\ committed = Tables
  /\ committed # pre

====
